---- MODULE Spec2Model ----
(***************************************************************************)
(* Model of _examples/bulk/bulk.go: main() generates `count` articles,     *)
(* re-creates the index, then walks the articles, buffering two lines per  *)
(* article and calling the Bulk API whenever the flush condition holds;    *)
(* each response is folded into numErrors / numIndexed and a final line    *)
(* reports the run.                                                        *)
(*                                                                         *)
(* The Elasticsearch endpoint is the environment: every call draws its     *)
(* outcome from a small set of responses.  encoding/json's Decode is       *)
(* modelled by what it does to a target that is reused between calls.      *)
(***************************************************************************)
EXTENDS Integers, Sequences, FiniteSets, TLC

\* ---------------------------------------------------------------- bounds
MaxCount == 5        \* largest -count flag explored
MaxBatch == 3        \* largest -batch flag explored
MaxItems == 3        \* longest "items" array a Bulk response carries
MaxBatches == 4      \* largest numBatches (count relative to batch) explored

\* ------------------------------------------------------ program constants
indexName == "articles"
StatusCreated == 201

\* Statuses an item of a Bulk response may carry: the two on either side of
\* the test of line 197 (201 Created, and the first status above it).
Statuses == {StatusCreated, StatusCreated + 1}

VARIABLES
    count,       \* flag -count
    batch,       \* flag -batch
    pc,          \* position of main()
    i,           \* index of the range loop over articles (0-based)
    buf,         \* bytes.Buffer, as the sequence of lines written to it
    res,         \* last (res, err) returned by es.Bulk
    raw,         \* map[string]interface{} decode target of failed requests
    blk,         \* *bulkResponse decode target of itemized responses
    numItems, numErrors, numIndexed, currBatch, numBatches,
    calls,       \* index-lifecycle calls made so far, in order
    requests,    \* payloads handed to es.Bulk so far, in order
    logged,      \* "> Batch k of n" lines printed so far, as <<k, n>>
    aligned      \* every itemized response so far had one item per record

vars == <<count, batch, pc, i, buf, res, raw, blk, numItems, numErrors,
          numIndexed, currBatch, numBatches, calls, requests, logged, aligned>>

\* ----------------------------------------------------------------- data
\* The generated collection: article k has ID k (loop at lines 94-105).
articles == [k \in 1..count |-> [ID |-> k]]

\* fmt.Sprintf of the action line and json.Marshal of the article, each
\* terminated by a newline: one buffer line each.
MetaLine(a) == [kind |-> "meta", index |-> indexName, id |-> a.ID]
DataLine(a) == [kind |-> "doc", id |-> a.ID]

NoResponse == [err |-> FALSE, isError |-> FALSE, json |-> "none",
               error |-> "absent", hasItems |-> FALSE, items |-> <<>>]

\* ------------------------------------------------------- the environment
SeqsUpTo(S, n) == UNION {[1..k -> S] : k \in 0..n}

\* Outcomes of Indices.Delete / Indices.Create: a transport error, a
\* response with an error status, or a successful response.
IndexOutcomes == {"err", "errorResponse", "ok"}

\* What es.Bulk can return.  err: the call itself failed.  isError:
\* res.IsError().  json: whether the body is not JSON at all, the literal
\* null, or an object.  error: the object's "error" member (absent, an
\* object, or a string).  hasItems / items: the object's "items" member,
\* as the sequence of the items' statuses.
Response(e, ie, j, er, hi, it) ==
    [err |-> e, isError |-> ie, json |-> j, error |-> er, hasItems |-> hi, items |-> it]

TransportError == Response(TRUE, FALSE, "none", "absent", FALSE, <<>>)

FailedResponses ==
    {Response(FALSE, TRUE, j, "absent", FALSE, <<>>) : j \in {"malformed", "null"}}
    \cup {Response(FALSE, TRUE, "object", er, FALSE, <<>>) : er \in {"absent", "map", "string"}}

ItemizedResponses ==
    {Response(FALSE, FALSE, j, "absent", FALSE, <<>>) : j \in {"malformed", "null", "object"}}
    \cup {Response(FALSE, FALSE, "object", "absent", TRUE, it) : it \in SeqsUpTo(Statuses, MaxItems)}

BulkResponses == {TransportError} \cup FailedResponses \cup ItemizedResponses

\* ------------------------------------------------------- pure functions
\* Lines 125-129.
NumBatchesOf(c, b) == IF c % b = 0 THEN c \div b ELSE (c \div b) + 1

\* Lines 138-141.
CurrBatchOf(ix) == IF ix = count - 1 THEN (ix \div batch) + 1 ELSE ix \div batch

\* FlushCond without the end-of-input disjunct.
FlushCondNoLast(ix) == ix > 0 /\ ix % batch = 0

\* Line 172: i > 0 && i%batch == 0 || i == count-1
FlushCond(ix) == (ix > 0 /\ ix % batch = 0) \/ ix = count - 1

\* IsItemError with the comparison off by one.
IsItemErrorFrom201(status) == status >= StatusCreated

\* Line 197: an item counts as an error when its status is above 201.
IsItemError(status) == status > StatusCreated

\* Lines 196-211: the walk over blk.Items, from item k on.
RECURSIVE Tally(_, _, _)
Tally(items, k, acc) ==
    IF k > Len(items) THEN acc
    ELSE Tally(items, k + 1,
               IF IsItemError(items[k])
               THEN [acc EXCEPT !.errors = @ + 1]
               ELSE [acc EXCEPT !.indexed = @ + 1])

\* json.NewDecoder(res.Body).Decode(&raw), line 182.  A body that is not
\* JSON is an error.  null sets the map to nil.  An object is decoded into
\* the existing map: members of the body replace entries, other entries
\* stay.  Only the "error" entry is read afterwards.
DecodeRaw(target, r) ==
    CASE r.json = "malformed" -> [ok |-> FALSE, val |-> target]
      [] r.json = "null"      -> [ok |-> TRUE, val |-> "absent"]
      [] OTHER                -> [ok |-> TRUE,
                                  val |-> IF r.error = "absent" THEN target ELSE r.error]

\* json.NewDecoder(res.Body).Decode(&blk), line 193.  null sets the
\* pointer to nil.  An object is decoded into the struct blk points to
\* (allocated when blk is nil): "items" replaces Items, and a body without
\* "items" leaves Items as it was.
NilBlk == [isNil |-> TRUE, Items |-> <<>>]

DecodeBlk(target, r) ==
    CASE r.json = "malformed" -> [ok |-> FALSE, val |-> target]
      [] r.json = "null"      -> [ok |-> TRUE, val |-> NilBlk]
      [] OTHER                -> [ok |-> TRUE,
                                  val |-> [isNil |-> FALSE,
                                           Items |-> IF r.hasItems THEN r.items
                                                     ELSE target.Items]]

\* ----------------------------------------------------------------- Init
\* The state when main() reaches line 108: flags parsed, client created,
\* articles generated, every local at its zero value.  The flags range
\* over count >= 0 and batch >= 1 (batch = 0 divides by zero at line 125),
\* with at most MaxBatches batches' worth of articles.
Init ==
    /\ count \in 0..MaxCount
    /\ batch \in 1..MaxBatch
    /\ count <= MaxBatches * batch
    /\ pc = "delete"
    /\ i = 0
    /\ buf = <<>>
    /\ res = NoResponse
    /\ raw = "absent"
    /\ blk = NilBlk
    /\ numItems = 0
    /\ numErrors = 0
    /\ numIndexed = 0
    /\ currBatch = 0
    /\ numBatches = 0
    /\ calls = <<>>
    /\ requests = <<>>
    /\ logged = <<>>
    /\ aligned = TRUE

\* -------------------------------------------------------------- actions
\* Lines 110-112: the first Indices.Delete; only err is looked at.
DeleteIndex ==
    /\ pc = "delete"
    /\ \E o \in IndexOutcomes :
        /\ calls' = Append(calls, [api |-> "Delete", outcome |-> o])
        /\ pc' = IF o = "err" THEN "fatal" ELSE "delete2"
    /\ UNCHANGED <<count, batch, i, buf, res, raw, blk, numItems, numErrors,
                   numIndexed, currBatch, numBatches, requests, logged, aligned>>

\* Lines 113-116: the second Indices.Delete; again only err is looked at.
DeleteIndexAgain ==
    /\ pc = "delete2"
    /\ \E o \in IndexOutcomes :
        /\ calls' = Append(calls, [api |-> "Delete", outcome |-> o])
        /\ pc' = IF o = "err" THEN "fatal" ELSE "create"
    /\ UNCHANGED <<count, batch, i, buf, res, raw, blk, numItems, numErrors,
                   numIndexed, currBatch, numBatches, requests, logged, aligned>>

\* CreateIndex with the res.IsError() check left out.
CreateIndexErrOnly ==
    /\ pc = "create"
    /\ \E o \in IndexOutcomes :
        /\ calls' = Append(calls, [api |-> "Create", outcome |-> o])
        /\ pc' = IF o = "err" THEN "fatal" ELSE "batches"
    /\ UNCHANGED <<count, batch, i, buf, res, raw, blk, numItems, numErrors,
                   numIndexed, currBatch, numBatches, requests, logged, aligned>>

\* Lines 117-123: Indices.Create; err and res.IsError() are both fatal.
CreateIndex ==
    /\ pc = "create"
    /\ \E o \in IndexOutcomes :
        /\ calls' = Append(calls, [api |-> "Create", outcome |-> o])
        /\ pc' = IF o = "ok" THEN "batches" ELSE "fatal"
    /\ UNCHANGED <<count, batch, i, buf, res, raw, blk, numItems, numErrors,
                   numIndexed, currBatch, numBatches, requests, logged, aligned>>

\* Lines 125-131: numBatches, and the range loop starts.
CountBatches ==
    /\ pc = "batches"
    /\ numBatches' = NumBatchesOf(count, batch)
    /\ i' = 0
    /\ pc' = "loop"
    /\ UNCHANGED <<count, batch, buf, res, raw, blk, numItems, numErrors,
                   numIndexed, currBatch, calls, requests, logged, aligned>>

\* Lines 135-141: the next article is taken; numItems and currBatch.
NextArticle ==
    /\ pc = "loop"
    /\ i < Len(articles)
    /\ numItems' = numItems + 1
    /\ currBatch' = CurrBatchOf(i)
    /\ pc' = "write"
    /\ UNCHANGED <<count, batch, i, buf, res, raw, blk, numErrors, numIndexed,
                   numBatches, calls, requests, logged, aligned>>

\* WriteArticle writing the document line before the action line.
WriteArticleDataFirst ==
    /\ pc = "write"
    /\ buf' = buf \o <<DataLine(articles[i + 1]), MetaLine(articles[i + 1])>>
    /\ IF FlushCond(i)
       THEN pc' = "bulk" /\ i' = i
       ELSE pc' = "loop" /\ i' = i + 1
    /\ UNCHANGED <<count, batch, res, raw, blk, numItems, numErrors, numIndexed,
                   currBatch, numBatches, calls, requests, logged, aligned>>

\* Lines 143-172: the meta line and the document line are appended to the
\* buffer, then the flush condition decides between the Bulk call and the
\* next iteration.
WriteArticle ==
    /\ pc = "write"
    /\ buf' = buf \o <<MetaLine(articles[i + 1]), DataLine(articles[i + 1])>>
    /\ IF FlushCond(i)
       THEN pc' = "bulk" /\ i' = i
       ELSE pc' = "loop" /\ i' = i + 1
    /\ UNCHANGED <<count, batch, res, raw, blk, numItems, numErrors, numIndexed,
                   currBatch, numBatches, calls, requests, logged, aligned>>

\* Bulk with the err check left out.
BulkUnchecked ==
    /\ pc = "bulk"
    /\ logged' = Append(logged, <<currBatch, numBatches>>)
    /\ requests' = Append(requests, buf)
    /\ \E r \in BulkResponses :
        /\ res' = r
        /\ pc' = "reconcile"
        /\ aligned' = (aligned /\ ((~r.err /\ ~r.isError /\ r.json = "object")
                                    => (r.hasItems /\ Len(r.items) = numItems)))
    /\ UNCHANGED <<count, batch, i, buf, raw, blk, numItems, numErrors, numIndexed,
                   currBatch, numBatches, calls>>

\* Lines 173-178: the batch is logged and the buffer is sent; a transport
\* error is fatal.
Bulk ==
    /\ pc = "bulk"
    /\ logged' = Append(logged, <<currBatch, numBatches>>)
    /\ requests' = Append(requests, buf)
    /\ \E r \in BulkResponses :
        /\ res' = r
        /\ pc' = IF r.err THEN "fatal" ELSE "reconcile"
        /\ aligned' = (aligned /\ ((~r.err /\ ~r.isError /\ r.json = "object")
                                    => (r.hasItems /\ Len(r.items) = numItems)))
    /\ UNCHANGED <<count, batch, i, buf, raw, blk, numItems, numErrors, numIndexed,
                   currBatch, numBatches, calls>>

\* RequestFailed sending a rejected batch again.
RequestFailedRetry ==
    /\ pc = "reconcile"
    /\ res.isError
    /\ numErrors' = numErrors + numItems
    /\ LET d == DecodeRaw(raw, res) IN
        /\ raw' = d.val
        /\ pc' = IF ~d.ok THEN "fatal"
                 ELSE IF d.val # "map" THEN "panic"
                 ELSE IF Len(requests) < 2 THEN "bulk"
                 ELSE "reset"
    /\ UNCHANGED <<count, batch, i, buf, res, blk, numItems, numIndexed, currBatch,
                   numBatches, calls, requests, logged, aligned>>

\* RequestFailed charging the configured batch size instead of numItems.
RequestFailedByBatch ==
    /\ pc = "reconcile"
    /\ res.isError
    /\ numErrors' = numErrors + batch
    /\ LET d == DecodeRaw(raw, res) IN
        /\ raw' = d.val
        /\ pc' = IF ~d.ok THEN "fatal"
                 ELSE IF d.val # "map" THEN "panic"
                 ELSE "reset"
    /\ UNCHANGED <<count, batch, i, buf, res, blk, numItems, numIndexed, currBatch,
                   numBatches, calls, requests, logged, aligned>>

\* RequestFailed charging one error per failed request.
RequestFailedOnce ==
    /\ pc = "reconcile"
    /\ res.isError
    /\ numErrors' = numErrors + 1
    /\ LET d == DecodeRaw(raw, res) IN
        /\ raw' = d.val
        /\ pc' = IF ~d.ok THEN "fatal"
                 ELSE IF d.val # "map" THEN "panic"
                 ELSE "reset"
    /\ UNCHANGED <<count, batch, i, buf, res, blk, numItems, numIndexed, currBatch,
                   numBatches, calls, requests, logged, aligned>>

\* Lines 180-190: the whole request failed.  numErrors grows before the
\* body is decoded; a body that does not decode is fatal, and the log line
\* asserts that raw["error"] is a map.
RequestFailed ==
    /\ pc = "reconcile"
    /\ res.isError
    /\ numErrors' = numErrors + numItems
    /\ LET d == DecodeRaw(raw, res) IN
        /\ raw' = d.val
        /\ pc' = IF ~d.ok THEN "fatal"
                 ELSE IF d.val # "map" THEN "panic"
                 ELSE "reset"
    /\ UNCHANGED <<count, batch, i, buf, res, blk, numItems, numIndexed, currBatch,
                   numBatches, calls, requests, logged, aligned>>

\* RequestItemized assigning the batch's tally instead of accumulating it.
RequestItemizedOverwrite ==
    /\ pc = "reconcile"
    /\ ~res.isError
    /\ LET d == DecodeBlk(blk, res)
           t == Tally(d.val.Items, 1, [errors |-> 0, indexed |-> 0])
       IN
        /\ blk' = d.val
        /\ IF ~d.ok THEN pc' = "fatal" /\ UNCHANGED <<numErrors, numIndexed>>
           ELSE IF d.val.isNil THEN pc' = "panic" /\ UNCHANGED <<numErrors, numIndexed>>
           ELSE /\ pc' = "reset"
                /\ numErrors' = t.errors
                /\ numIndexed' = t.indexed
    /\ UNCHANGED <<count, batch, i, buf, res, raw, numItems, currBatch, numBatches,
                   calls, requests, logged, aligned>>

\* Lines 192-212: the response is decoded into blk and its items are
\* counted; a body that does not decode is fatal, and blk.Items
\* dereferences blk.
RequestItemized ==
    /\ pc = "reconcile"
    /\ ~res.isError
    /\ LET d == DecodeBlk(blk, res)
           t == Tally(d.val.Items, 1, [errors |-> numErrors, indexed |-> numIndexed])
       IN
        /\ blk' = d.val
        /\ IF ~d.ok THEN pc' = "fatal" /\ UNCHANGED <<numErrors, numIndexed>>
           ELSE IF d.val.isNil THEN pc' = "panic" /\ UNCHANGED <<numErrors, numIndexed>>
           ELSE /\ pc' = "reset"
                /\ numErrors' = t.errors
                /\ numIndexed' = t.indexed
    /\ UNCHANGED <<count, batch, i, buf, res, raw, numItems, currBatch, numBatches,
                   calls, requests, logged, aligned>>

\* ResetBuffer without numItems = 0.
ResetBufferKeepCount ==
    /\ pc = "reset"
    /\ buf' = <<>>
    /\ i' = i + 1
    /\ pc' = "loop"
    /\ UNCHANGED <<count, batch, res, raw, blk, numItems, numErrors, numIndexed,
                   currBatch, numBatches, calls, requests, logged, aligned>>

\* ResetBuffer without buf.Reset().
ResetBufferKeepBuf ==
    /\ pc = "reset"
    /\ numItems' = 0
    /\ i' = i + 1
    /\ pc' = "loop"
    /\ UNCHANGED <<count, batch, buf, res, raw, blk, numErrors, numIndexed,
                   currBatch, numBatches, calls, requests, logged, aligned>>

\* Lines 214-216: the buffer is reset, numItems is zeroed, and the
\* iteration ends.
ResetBuffer ==
    /\ pc = "reset"
    /\ buf' = <<>>
    /\ numItems' = 0
    /\ i' = i + 1
    /\ pc' = "loop"
    /\ UNCHANGED <<count, batch, res, raw, blk, numErrors, numIndexed, currBatch,
                   numBatches, calls, requests, logged, aligned>>

\* Report deciding on whether anything was indexed.
ReportByIndexed ==
    /\ pc = "loop"
    /\ i >= Len(articles)
    /\ pc' = IF numIndexed = 0 /\ numErrors > 0 THEN "failed" ELSE "success"
    /\ UNCHANGED <<count, batch, i, buf, res, raw, blk, numItems, numErrors,
                   numIndexed, currBatch, numBatches, calls, requests, logged, aligned>>

\* Lines 219-239: the loop is over; the run is reported as failed
\* (log.Fatalf) when numErrors > 0 and as successful otherwise.
Report ==
    /\ pc = "loop"
    /\ i >= Len(articles)
    /\ pc' = IF numErrors > 0 THEN "failed" ELSE "success"
    /\ UNCHANGED <<count, batch, i, buf, res, raw, blk, numItems, numErrors,
                   numIndexed, currBatch, numBatches, calls, requests, logged, aligned>>

Next ==
    \/ DeleteIndex
    \/ DeleteIndexAgain
    \/ CreateIndex
    \/ CountBatches
    \/ NextArticle
    \/ WriteArticle
    \/ Bulk
    \/ RequestFailed
    \/ RequestItemized
    \/ ResetBuffer
    \/ Report

Spec == Init /\ [][Next]_vars

\* =============================================================== claims
\* Vocabulary of the claims.
Ceil(n, b) == (n + b - 1) \div b

\* Number of records a payload carries: its document lines.
RecordsIn(payload) == Cardinality({k \in DOMAIN payload : payload[k].kind = "doc"})

RECURSIVE SumRecords(_)
SumRecords(reqs) ==
    IF reqs = <<>> THEN 0 ELSE RecordsIn(Head(reqs)) + SumRecords(Tail(reqs))

\* Number of records submitted to the Bulk endpoint so far.
Submitted == SumRecords(requests)

\* The loop is over and no fatal error was met.
Reported == pc \in {"success", "failed"}
LoopEnded == Reported \/ (pc = "loop" /\ i >= count)

\* Number of times line l occurs over all payloads submitted so far.
Occurrences(l) ==
    Cardinality(UNION {{<<k, j>> : j \in {n \in DOMAIN requests[k] : requests[k][n] = l}} :
                          k \in DOMAIN requests})

\* C1: a run that meets no fatal error issues exactly ceil(N/B) Bulk
\* requests, the number computed as numBatches, and the record counts of
\* the requests sum to N.
C1_BatchCountIsCeil ==
    Reported =>
        /\ numBatches = Ceil(count, batch)
        /\ Len(requests) = numBatches
        /\ Submitted = count

\* C2: at the moment of any flush the number of records accumulated since
\* the previous flush is at most B, so every submitted batch holds at most
\* B records.
C2_BatchAtMostB ==
    /\ pc = "bulk" => numItems <= batch
    /\ \A k \in DOMAIN requests : RecordsIn(requests[k]) <= batch

\* C3: every batch other than the final one holds exactly B records and
\* the final one holds the remainder N - B*(ceil(N/B) - 1).
ExpectedSize(k) ==
    IF k < Ceil(count, batch) THEN batch ELSE count - batch * (Ceil(count, batch) - 1)

C3_BatchSizes ==
    \A k \in DOMAIN requests : RecordsIn(requests[k]) = ExpectedSize(k)

\* C4: every generated record is in the payload of exactly one Bulk
\* request once the loop has ended without a fatal error, no record is
\* ever in two requests, and the buffer is empty when the loop ends.
C4_EveryRecordOnce ==
    /\ \A k \in 1..count :
         /\ Occurrences(MetaLine(articles[k])) <= 1
         /\ Occurrences(DataLine(articles[k])) <= 1
    /\ LoopEnded =>
         /\ buf = <<>>
         /\ \A k \in 1..count :
              /\ Occurrences(MetaLine(articles[k])) = 1
              /\ Occurrences(DataLine(articles[k])) = 1
              /\ \E r \in DOMAIN requests :
                   \E j \in DOMAIN requests[r] :
                      /\ requests[r][j] = MetaLine(articles[k])
                      /\ j + 1 \in DOMAIN requests[r]
                      /\ requests[r][j + 1] = DataLine(articles[k])

\* A run of several requests ended, and the last record forced a flush of
\* fewer than B buffered records.
C4_Witness ==
    /\ pc = "success"
    /\ Len(requests) >= 2
    /\ RecordsIn(requests[Len(requests)]) < batch
    /\ Submitted = count

\* C5: when every itemized response so far carried one item per record of
\* its batch, numIndexed + numErrors equals the number of records
\* submitted whenever no flush is in progress, and equals N at the end of
\* a run without a fatal error.
C5_CountersAddUp ==
    aligned =>
        /\ pc \in {"loop", "write", "bulk", "reset", "success", "failed"}
              => numIndexed + numErrors = Submitted
        /\ Reported => numIndexed + numErrors = count

\* A run of several flushes, some records indexed and some failed, ended.
C5_Witness ==
    /\ aligned
    /\ pc = "failed"
    /\ Len(requests) >= 2
    /\ numIndexed > 0
    /\ numErrors > 0
    /\ numIndexed + numErrors = count

\* The payload of the request being reconciled.
LastRequest == requests[Len(requests)]

\* C6: when the response signals an overall error and its body decodes,
\* the flush adds the number of records of the submitted batch to
\* numErrors and leaves numIndexed unchanged.
C6_WholeFailureCountsBatch ==
    [][(pc = "reconcile" /\ res.isError /\ res.json # "malformed")
         => /\ numErrors' = numErrors + RecordsIn(LastRequest)
            /\ numIndexed' = numIndexed]_vars

\* A later batch of a run was rejected as a whole after an earlier batch
\* was indexed.
C6_Witness ==
    /\ pc = "reset"
    /\ res.isError
    /\ res.json = "object"
    /\ Len(requests) >= 2
    /\ numIndexed > 0
    /\ numErrors = RecordsIn(LastRequest)
    /\ RecordsIn(LastRequest) # batch

\* C7: for an itemized response each item with status <= 201 adds one to
\* numIndexed, each item with status > 201 adds one to numErrors, and the
\* counters change by nothing else; so with one item per record and all
\* statuses <= 201 the flush adds 0 to numErrors and the batch size to
\* numIndexed.
ItemsAtMost201 == {k \in DOMAIN res.items : res.items[k] <= 201}
ItemsAbove201 == {k \in DOMAIN res.items : res.items[k] > 201}

C7_ItemizedTally ==
    [][(pc = "reconcile" /\ ~res.isError /\ res.json = "object" /\ res.hasItems)
         => /\ numIndexed' = numIndexed + Cardinality(ItemsAtMost201)
            /\ numErrors' = numErrors + Cardinality(ItemsAbove201)
            /\ (ItemsAbove201 = {} /\ Len(res.items) = RecordsIn(LastRequest))
                  => /\ numErrors' = numErrors
                     /\ numIndexed' = numIndexed + RecordsIn(LastRequest)]_vars

\* The second batch of a run came back with one item per record, every
\* status 201, after a first batch with one rejected item.
C7_Witness ==
    /\ pc = "reset"
    /\ Len(requests) = 2
    /\ ~res.isError /\ res.hasItems
    /\ Len(res.items) = RecordsIn(LastRequest)
    /\ ItemsAbove201 = {}
    /\ res.items # <<>>
    /\ numErrors = 1
    /\ numIndexed = Submitted - 1

\* C8: the amounts a flush adds to numIndexed and numErrors are those the
\* same response gives when reconciled from a fresh decode target and
\* fresh counters, whatever was decoded for earlier batches.
FreshDelta ==
    IF res.isError
    THEN [errors |-> numItems, indexed |-> 0]
    ELSE Tally(DecodeBlk(NilBlk, res).val.Items, 1, [errors |-> 0, indexed |-> 0])

C8_DeltaFromResponseOnly ==
    [][(pc = "reconcile" /\ pc' = "reset")
         => /\ numIndexed' - numIndexed = FreshDelta.indexed
            /\ numErrors' - numErrors = FreshDelta.errors]_vars

\* C9: a transport error of the Bulk call, or a response body that does
\* not decode, ends the run on the spot: no state of the run has such a
\* response as its last one other than the fatal exit (reached at the
\* position of that flush, without a report), apart from the instant
\* between the call's return and the decoding of the body.
C9_FatalEndsRun ==
    (res.err \/ (res.json = "malformed" /\ pc # "reconcile"))
        => /\ pc = "fatal"
           /\ Len(requests) = Len(logged)
           /\ buf = LastRequest

\* The second Bulk call of a run failed in transport while records were
\* still to come.
C9_Witness ==
    /\ res.err
    /\ pc = "fatal"
    /\ Len(requests) = 2
    /\ i < count - 1

\* C10: a whole-batch rejection (an error response with a JSON object as body) or
\* a single-record rejection never stops the run: once it is reconciled
\* the run is not aborted, and a run that reaches its report after a
\* rejection has submitted every record and is reported as failed.
C10_RejectionNeverStops ==
    /\ (res.isError /\ res.json = "object" /\ pc # "reconcile") => pc \notin {"fatal", "panic"}
    /\ (~res.err /\ ~res.isError /\ res.hasItems /\ pc # "reconcile") => pc \notin {"fatal", "panic"}
    /\ (Reported /\ numErrors > 0) => (pc = "failed" /\ Submitted = count)

\* C11: a run that reaches the final report is reported as failed exactly
\* when numErrors > 0, however many records were indexed, and as
\* successful when numErrors = 0.
C11_FailedIffErrors ==
    /\ [](pc = "failed" => numErrors > 0)
    /\ [](pc = "success" => numErrors = 0)
    /\ [][(pc = "loop" /\ i >= count)
            => (pc' = IF numErrors > 0 THEN "failed" ELSE "success")]_vars

\* A run that indexed more records than it lost is reported as failed.
C11_Witness ==
    /\ pc = "failed"
    /\ numIndexed > numErrors
    /\ numErrors > 0

\* C12 as stated: no step of the run decreases numItems, numIndexed or
\* numErrors.
C12_AllCountersMonotonic ==
    [][/\ numItems' >= numItems
       /\ numIndexed' >= numIndexed
       /\ numErrors' >= numErrors]_vars

\* C12, amended: no step decreases numIndexed or numErrors; numItems
\* grows by one per record and decreases only in the step after a flush
\* that sets it to 0.
C12_RunCountersMonotonic ==
    [][/\ numIndexed' >= numIndexed
       /\ numErrors' >= numErrors
       /\ \/ numItems' >= numItems
          \/ (pc = "reset" /\ numItems' = 0)]_vars

\* After a flush that indexed some records and lost others numItems is
\* back at 0 and the run goes on.
C12_Witness ==
    /\ pc = "loop"
    /\ i < count
    /\ numItems = 0
    /\ Len(requests) >= 2
    /\ numIndexed > 0
    /\ numErrors > 0

\* C13 as stated: whenever the delete call or the create call reported an
\* error (a transport error or an error response) the run is aborted with
\* no Bulk request issued, and a Bulk request is issued only after both
\* succeeded, delete before create.
BadCalls == {k \in DOMAIN calls : calls[k].outcome # "ok"}
CheckedBadCalls ==
    {k \in DOMAIN calls : \/ calls[k].outcome = "err"
                          \/ (calls[k].api = "Create" /\ calls[k].outcome # "ok")}

C13_IndexCallsFailFast ==
    /\ BadCalls # {} => (pc = "fatal" /\ requests = <<>>)
    /\ (pc = "bulk" \/ requests # <<>>)
          => /\ [k \in DOMAIN calls |-> calls[k].api] = <<"Delete", "Delete", "Create">>
             /\ BadCalls = {}

\* C13, amended: a transport error of a delete call or of the create
\* call, or an error response to the create call, aborts the run with no
\* Bulk request issued; an error response to a delete call is ignored; a
\* Bulk request is issued only after the two delete calls returned without
\* a transport error and the create call then succeeded.
C13_IndexCallsChecked ==
    /\ CheckedBadCalls # {} => (pc = "fatal" /\ requests = <<>> /\ logged = <<>>)
    /\ (pc = "bulk" \/ requests # <<>>)
          => /\ [k \in DOMAIN calls |-> calls[k].api] = <<"Delete", "Delete", "Create">>
             /\ calls[3].outcome = "ok"
             /\ CheckedBadCalls = {}

\* A Bulk request was issued although both delete calls were answered
\* with an error response.
C13_Witness ==
    /\ requests # <<>>
    /\ Len(calls) = 3
    /\ calls[1].outcome = "errorResponse"
    /\ calls[2].outcome = "errorResponse"
    /\ calls[3].outcome = "ok"

\* The record processed last (article i, at index i - 1) went out with the
\* last request: a flush has just been completed.
JustFlushed ==
    /\ pc = "loop"
    /\ i > 0
    /\ requests # <<>>
    /\ LastRequest # <<>>
    /\ LastRequest[Len(LastRequest)].id = i

RECURSIVE Concat(_)
Concat(reqs) == IF reqs = <<>> THEN <<>> ELSE Head(reqs) \o Concat(Tail(reqs))

ExpectedLine(n) ==
    IF n % 2 = 1
    THEN [kind |-> "meta", index |-> "articles", id |-> (n + 1) \div 2]
    ELSE [kind |-> "doc", id |-> n \div 2]

C15_PayloadLayout ==
    /\ \A k \in DOMAIN requests : Len(requests[k]) = 2 * RecordsIn(requests[k])
    /\ \A n \in DOMAIN Concat(requests) : Concat(requests)[n] = ExpectedLine(n)
    /\ Len(Concat(requests)) <= 2 * count
    /\ Reported => Len(Concat(requests)) = 2 * count

\* A run of at least three records in at least two requests was reported.
C15_Witness ==
    /\ Reported
    /\ count >= 3
    /\ Len(requests) >= 2
    /\ Len(Concat(requests)) = 2 * count

\* C16: the counters numIndexed and numErrors change only in the step
\* that reconciles the response of the request just sent; a step that
\* takes or buffers a record leaves them unchanged; and a record is
\* appended to the buffer only when no line in the buffer has been
\* submitted and (with one item per record in every response) every
\* submitted record is already counted.
C16_CountersChangeAtFlushOnly ==
    [][/\ (numIndexed' # numIndexed \/ numErrors' # numErrors)
             => (pc = "reconcile" /\ buf = LastRequest)
       /\ pc \in {"loop", "write"}
             => (numIndexed' = numIndexed /\ numErrors' = numErrors)
       /\ Len(buf') > Len(buf)
             => /\ pc = "write"
                /\ \A n \in DOMAIN buf : Occurrences(buf[n]) = 0
                /\ aligned => numIndexed + numErrors = Submitted]_vars

\* A record of the next batch is buffered, without a flush, after a batch
\* with a rejected record was reconciled.
C16_Witness ==
    /\ pc = "loop"
    /\ buf # <<>>
    /\ requests # <<>>
    /\ aligned
    /\ numErrors > 0
    /\ numIndexed + numErrors = Submitted

\* C17: the index logged at a flush at position i is floor(i/B), plus one
\* at the last position; the k-th flush of a run logs index k, and the
\* final flush logs numBatches.
C17_LoggedIndexIsOrdinal ==
    /\ pc = "bulk" => currBatch = (i \div batch) + (IF i = count - 1 THEN 1 ELSE 0)
    /\ \A k \in DOMAIN logged : logged[k] = <<k, numBatches>>
    /\ (Reported /\ logged # <<>>) => logged[Len(logged)][1] = numBatches

\* C18: the run is a single pass without retry.  It ends as reported
\* success, reported failure or an abort (log.Fatalf or a panic): every
\* step lowers a measure that never drops below zero, and a step is
\* possible whenever the run has not ended; at most N loop iterations are
\* started; no record is ever submitted twice; and a run that has ended
\* does nothing more.
Ended == pc \in {"success", "failed", "fatal", "panic"}

PcRank ==
    CASE pc = "delete"    -> 8
      [] pc = "delete2"   -> 7
      [] pc = "create"    -> 6
      [] pc = "batches"   -> 5
      [] pc = "loop"      -> 4
      [] pc = "write"     -> 3
      [] pc = "bulk"      -> 2
      [] pc = "reconcile" -> 1
      [] OTHER            -> 0

StepsLeft == IF Ended THEN 0 ELSE 5 * (count - i) + PcRank + 1

C18_SinglePassNoRetry ==
    /\ [](StepsLeft >= 0 /\ StepsLeft <= 5 * count + 9)
    /\ [][StepsLeft' < StepsLeft]_vars
    /\ [](Ended \/ ENABLED Next)
    /\ [](i <= count /\ (pc \in {"write", "bulk", "reconcile", "reset"} => i < count))
    /\ [](\A k \in 1..count : Occurrences(DataLine(articles[k])) <= 1)
    /\ [](Len(requests) <= count)
    /\ [][Ended => UNCHANGED vars]_vars

\* A run whose first batch was rejected as a whole went on and ended
\* reported as failed, every record submitted once.
C18_Witness ==
    /\ pc = "failed"
    /\ Len(requests) >= 2
    /\ numErrors >= RecordsIn(requests[1])
    /\ numIndexed > 0
    /\ res.hasItems
    /\ Submitted = count

====
